---- MODULE Spec2Model ----
(***************************************************************************)
(* Hash join of two columns on a compute device                            *)
(* (src/src/hash-join/join_compute_api.h): InnerJoinHash / LeftJoinHash    *)
(* dispatch to GenericJoinHash, which builds a hash table over the right   *)
(* column, estimates the number of matches with a counting probe over a    *)
(* sample of the left column, materialises the matching row-index pairs    *)
(* into a buffer that is doubled until it is large enough, and transposes  *)
(* the pairs into one array (pairs_to_decoupled).                          *)
(*                                                                         *)
(* Row indices are 0-based as in the source.  A row is the triple of its   *)
(* key components <<a[i], a2[i], a3[i]>>; a key column that is not given   *)
(* (NULL pointer) has component 0 in every row.                            *)
(*                                                                         *)
(* The kernels (join_kernels.cuh), the concurrent multimap and the         *)
(* CUDA_RT_CALL macro are not part of the sources at hand; they are        *)
(* modelled from the design document.                                      *)
(*                                                                         *)
(* Three specifications share the actions of the call:                     *)
(*   Spec       two calls on short columns, every interleaving of the      *)
(*              kernels' workers, no device fault;                         *)
(*   SpecFault  one call in which the device may fail an allocation, a     *)
(*              launch or the synchronisation;                             *)
(*   SpecSize   one call on columns with up to SizeMax rows, the largest   *)
(*              value of size_type, the workers of a kernel in row order.  *)
(***************************************************************************)
EXTENDS Integers, Sequences, FiniteSets, TLC

VARIABLES
  entry,           \* entry point of the session: "InnerJoinHash" or "LeftJoinHash"
  A, B,            \* the caller's left and right column (immutable)
  faults,          \* faults the device may still report without being forced to
  call,            \* 1 or 2: the session runs the join twice
  order,           \* argument order of the running call: "AB" or "BA"
  first,           \* what the first call returned
  pc,              \* position of the host thread
  a, b,            \* GenericJoinHash's parameters a (probe side), b (build side)
  flip_results,
  error,           \* cudaError_t error
  d_joined_idx,    \* device match counter
  hash_tbl,        \* slots of the multimap, 0 .. hash_tbl_size-1
  build,           \* build kernel: per right row, slot being tried, or Finished
  a_sample_size, size_ratio, scanSize,
  d_common_probe,  \* device sample counter: [valid, val]
  count_pending,   \* counting kernel enqueued and not yet run
  tempOut,         \* pair buffer: [st, cap, data]
  probe,           \* materialising kernel: per left row, matches still to emit
  h_actual_found,
  joined_output,   \* the caller's output array (0-based function)
  assigned,        \* history: joined_output was assigned by this call
  dev_error,       \* history: a launch or synchronisation reported an error
  alloc_failed,    \* history: an allocation of this call failed
  n_alloc,         \* history: pair buffers allocated by this call
  n_probe,         \* history: materialising probes launched by this call
  live             \* device buffers this call allocated and has not freed

session == <<entry, A, B, call, order, first>>
fixed == <<session, faults>>
locals == <<pc, a, b, flip_results, error, d_joined_idx, hash_tbl, build,
            a_sample_size, size_ratio, scanSize, d_common_probe, count_pending,
            tempOut, probe, h_actual_found, joined_output>>
history == <<assigned, dev_error, alloc_failed, n_alloc, n_probe, live>>
vars == <<session, faults, locals, history>>

----------------------------------------------------------------------------
(* Bounds of the model *)

\* largest cross product |A| * |B| of the input columns (and largest row count)
MaxPairs == 6
\* largest number of rows of the build side (one build worker per row)
MaxBuild == 2
\* largest cross product (and row count) of columns that carry extra key
\* columns (a2, a3)
MaxCompositePairs == 2
\* most faults the device reports in one session without being forced to
MaxFaults == 1

\* width in bits of size_type in the model (the width of int, scaled down so
\* that row counts near the largest size_type value can be enumerated)
SizeBits == 5

\* key values of the input columns
Keys == {2, 3}
\* what a read through an indeterminate pointer may yield
Indeterminate == {0, 1}

----------------------------------------------------------------------------
(* Program constants *)

DEFAULT_HASH_TBL_OCCUPANCY == 50
DEFAULT_CUDA_BLOCK_SIZE == 128
\* std::numeric_limits<key_type>::max(), <size_type>::max(): the unused slot
unused_key == 2147483647
unused_element == 2147483647

cudaSuccess == "cudaSuccess"
cudaErrorMemoryAllocation == "cudaErrorMemoryAllocation"
cudaErrorInvalidConfiguration == "cudaErrorInvalidConfiguration"
cudaErrorInvalidValue == "cudaErrorInvalidValue"
cudaErrorLaunchFailure == "cudaErrorLaunchFailure"

Finished == 0 - 1

\* size_type: the type of the row counts, of scanSize and of the counters; a
\* signed integer type (the counts are ints where the join is called from
\* the column API).  Arithmetic that leaves its range wraps, as the
\* multiply and add instructions of the build targets do.
SizeMax == 2 ^ (SizeBits - 1) - 1

size_type(x) == ((x + SizeMax + 1) % (2 ^ SizeBits)) - (SizeMax + 1)

\* x / y of the language for y > 0: the quotient truncated towards zero
Quot(x, y) == IF x >= 0 THEN x \div y ELSE 0 - ((0 - x) \div y)

NoPair == <<-1, -1>>
NullBuffer == [st |-> "null", cap |-> 0, data |-> <<>>]
\* no device buffer of the call is allocated
NoBuffers == [d_joined_idx |-> 0, d_common_probe |-> 0, tempOut |-> 0]
EmptyOutput == <<>>

----------------------------------------------------------------------------
(* Columns *)

Count(col) == Len(col)
At(col, i) == col[i + 1]
RowIdx(col) == 0 .. (Count(col) - 1)

\* all key components of row i of x and row j of y compare equal
KeysEqual(x, i, y, j) == At(x, i) = At(y, j)

\* the cross-matching set of x and y
MatchSet(x, y) == {p \in RowIdx(x) \X RowIdx(y) : KeysEqual(x, p[1], y, p[2])}

Rows(c2, c3) ==
  {<<k1, k2, k3>> : k1 \in Keys,
                    k2 \in (IF c2 THEN Keys ELSE {0}),
                    k3 \in (IF c3 THEN Keys ELSE {0})}

Columns(n, c2, c3) == [1 .. n -> Rows(c2, c3)]

Inputs ==
  {in \in [entry : {"InnerJoinHash", "LeftJoinHash"}, n : 0 .. MaxPairs,
           m : 0 .. MaxPairs, c2 : BOOLEAN, c3 : BOOLEAN] :
     /\ in.n * in.m <= MaxPairs
     /\ (in.c2 \/ in.c3) =>
          /\ in.n * in.m <= MaxCompositePairs
          /\ in.n <= MaxCompositePairs /\ in.m <= MaxCompositePairs
     /\ (IF in.entry = "InnerJoinHash" /\ in.n < in.m THEN in.n ELSE in.m) <= MaxBuild}

----------------------------------------------------------------------------
(* The concurrent multimap (open addressing, linear probing) *)

UnusedSlot == [key |-> unused_key, val |-> unused_element]

Size(tbl) == Cardinality(DOMAIN tbl)

\* the slot a key hashes to
Hash(k, size) == k % size

\* a fresh table of `size` unused slots
NewTable(size) == [s \in 0 .. (size - 1) |-> UnusedSlot]

\* one compare-and-swap attempt of an insert of (k, v) at slot pos:
\* <<table after, slot to try next or Finished>>
InsertStep(tbl, pos, k, v) ==
  IF tbl[pos].key = unused_key
  THEN <<[tbl EXCEPT ![pos] = [key |-> k, val |-> v]], Finished>>
  ELSE <<tbl, (pos + 1) % Size(tbl)>>

RECURSIVE Scan(_, _, _, _)
\* the values stored under key k, in slot order from slot pos up to the first
\* unused slot
Scan(tbl, k, pos, steps) ==
  IF steps = Size(tbl) \/ tbl[pos].key = unused_key THEN <<>>
  ELSE (IF tbl[pos].key = k THEN <<tbl[pos].val>> ELSE <<>>)
       \o Scan(tbl, k, (pos + 1) % Size(tbl), steps + 1)

Find(tbl, k) == IF Size(tbl) = 0 THEN <<>> ELSE Scan(tbl, k, Hash(k, Size(tbl)), 0)

----------------------------------------------------------------------------
(* The probe kernels' work for one left row *)

RECURSIVE Filter(_, _, _, _)
\* the candidates js whose extra key components equal those of row i of x
Filter(x, i, y, js) ==
  IF js = <<>> THEN <<>>
  ELSE (IF At(x, i)[2] = At(y, Head(js))[2] /\ At(x, i)[3] = At(y, Head(js))[3]
        THEN <<Head(js)>> ELSE <<>>) \o Filter(x, i, y, Tail(js))

\* the right rows joined to left row i, in the order the kernel meets them
RowMatches(tbl, x, i, y) == Filter(x, i, y, Find(tbl, At(x, i)[1]))

RECURSIVE CountCommon(_, _, _, _)
\* number of matches of the first n rows of x
CountCommon(tbl, x, n, y) ==
  IF n <= 0 THEN 0
  ELSE Len(RowMatches(tbl, x, n - 1, y)) + CountCommon(tbl, x, n - 1, y)

----------------------------------------------------------------------------
(* Host-side helpers *)

\* number of blocks of a launch over n rows
GridSize(n) == (n + DEFAULT_CUDA_BLOCK_SIZE - 1) \div DEFAULT_CUDA_BLOCK_SIZE

\* a launch with an empty grid is rejected; so is one the device faults
LaunchOK(grid, fault) == grid > 0 /\ ~fault

LaunchError(grid) ==
  IF grid = 0 THEN cudaErrorInvalidConfiguration ELSE cudaErrorLaunchFailure

\* faults the device may report without being forced to
Faults == IF faults > 0 THEN {FALSE, TRUE} ELSE {FALSE}

Cost(fault) == IF fault THEN 1 ELSE 0

\* line 102: the product and the quotient in size_t, the result narrowed to
\* size_type
HashTblSize(b_count) ==
  size_type((b_count * 100) \div DEFAULT_HASH_TBL_OCCUPANCY)

\* an inner join that never exchanges its sides
SwapSidesNever(a_count, b_count) == FALSE

SwapSides(a_count, b_count) == b_count > a_count

\* a swap that forgets to ask for flipped results
InnerArgsNoFlip(left, right) ==
  IF SwapSides(Count(left), Count(right))
  THEN [a |-> right, b |-> left, flip |-> FALSE]
  ELSE [a |-> left, b |-> right, flip |-> FALSE]

\* the arguments InnerJoinHash hands to GenericJoinHash
InnerArgs(left, right) ==
  IF SwapSides(Count(left), Count(right))
  THEN [a |-> right, b |-> left, flip |-> TRUE]
  ELSE [a |-> left, b |-> right, flip |-> FALSE]

Oversized(a_count, b_count) == a_count > size_type(5 * b_count)

\* an estimate loop that accepts an estimate of 0 from a partial sample
EstimateDoneAnyEstimate(scan, sample, a_count) == scan >= 0 \/ sample = a_count

EstimateDone(scan, sample, a_count) == scan > 0 \/ sample = a_count

\* a retry test that lets one pair too many through
UndersizedOffByOne(scan, found) == scan + 1 < found

\* a probe that is never redone
UndersizedNever(scan, found) == FALSE

Undersized(scan, found) == scan < found

HalfRatio(ratio) == IF Quot(ratio, 2) = 0 THEN 1 ELSE Quot(ratio, 2)

\* joined[index]; a read outside the buffer yields an indeterminate pair
Joined(joined, index) ==
  IF index \in DOMAIN joined THEN joined[index] ELSE NoPair

\* a transposition that ignores flip_indices
pairs_to_decoupled_noflip(output_npairs, joined, flip_indices) ==
  IF output_npairs > 0
  THEN [index \in 0 .. (2 * output_npairs - 1) |->
          IF index < output_npairs
          THEN Joined(joined, index)[1]
          ELSE Joined(joined, index - output_npairs)[2]]
  ELSE EmptyOutput

\* a transposition that flips when it should not and the other way round
pairs_to_decoupled_inverted(output_npairs, joined, flip_indices) ==
  IF output_npairs > 0
  THEN [index \in 0 .. (2 * output_npairs - 1) |->
          IF index < output_npairs
          THEN (IF flip_indices THEN Joined(joined, index)[1]
                                ELSE Joined(joined, index)[2])
          ELSE (IF flip_indices THEN Joined(joined, index - output_npairs)[2]
                                ELSE Joined(joined, index - output_npairs)[1])]
  ELSE EmptyOutput

pairs_to_decoupled(output_npairs, joined, flip_indices) ==
  IF output_npairs > 0
  THEN [index \in 0 .. (2 * output_npairs - 1) |->
          IF index < output_npairs
          THEN (IF flip_indices THEN Joined(joined, index)[2]
                                ELSE Joined(joined, index)[1])
          ELSE (IF flip_indices THEN Joined(joined, index - output_npairs)[1]
                                ELSE Joined(joined, index - output_npairs)[2])]
  ELSE EmptyOutput

\* the pairs an output array holds, as (left row, right row)
Pairs(out) ==
  LET n == Size(out) \div 2
  IN {<<out[k], out[k + n]>> : k \in 0 .. (n - 1)}

\* the columns the running call was given as left and right
Left == IF order = "AB" THEN A ELSE B
Right == IF order = "AB" THEN B ELSE A

\* a probe that does not wait for the build kernel
BuildDoneNoWait == TRUE

\* a synchronisation that does not wait for the probe kernel
ProbeDoneNoWait == TRUE

BuildDone == \A j \in DOMAIN build : build[j] = Finished
ProbeDone == \A i \in DOMAIN probe : probe[i] = <<>>

----------------------------------------------------------------------------
(* Initial states: one session per input *)

NoResult == [status |-> "none", pairs |-> {}, found |-> 0]

\* the locals of a call before its first statement
Fresh ==
  /\ pc = "call"
  /\ a = <<>> /\ b = <<>> /\ flip_results = FALSE
  /\ error = cudaSuccess
  /\ d_joined_idx = 0
  /\ hash_tbl = <<>> /\ build = <<>>
  /\ a_sample_size = 0 /\ size_ratio = 1 /\ scanSize = 0
  /\ d_common_probe = [valid |-> FALSE, val |-> 0]
  /\ count_pending = FALSE
  /\ tempOut = NullBuffer
  /\ probe = <<>>
  /\ h_actual_found = 0
  /\ joined_output = EmptyOutput
  /\ assigned = FALSE /\ dev_error = FALSE /\ alloc_failed = FALSE
  /\ n_alloc = 0 /\ n_probe = 0
  /\ live = NoBuffers

InitCall ==
  /\ \E in \in Inputs :
       /\ entry = in.entry
       /\ A \in Columns(in.n, in.c2, in.c3)
       /\ B \in Columns(in.m, in.c2, in.c3)
  /\ call = 1 /\ order = "AB" /\ first = NoResult
  /\ Fresh

Init == InitCall /\ faults = 0

\* Columns with row counts up to the largest size_type value: a left column
\* of n rows of which h, the first or the last ones, carry the key of all m
\* rows of the right column.  The join has h * m pairs, a number size_type
\* can hold.
Run(n, h, front) ==
  [i \in 1 .. n |->
     IF (front /\ i <= h) \/ (~front /\ i > n - h) THEN <<2, 0, 0>>
                                                  ELSE <<3, 0, 0>>]

SizeInputs ==
  {in \in [entry : {"InnerJoinHash", "LeftJoinHash"}, n : 0 .. SizeMax,
           m : 0 .. SizeMax, h : 0 .. SizeMax, front : BOOLEAN] :
     /\ in.h <= in.n
     /\ in.h * in.m <= SizeMax
     /\ in.n * in.m <= 2 ^ SizeBits
     /\ (in.h = 0 \/ in.h = in.n) => in.front}

InitSize ==
  /\ \E in \in SizeInputs :
       /\ entry = in.entry
       /\ A = Run(in.n, in.h, in.front)
       /\ B = Run(in.m, in.m, TRUE)
  /\ call = 1 /\ order = "AB" /\ first = NoResult
  /\ Fresh
  /\ faults = 0

InitFault == InitCall /\ faults = MaxFaults

----------------------------------------------------------------------------
(* Entry points *)

\* lines 225-232: a left join never swaps
LeftJoinHash ==
  /\ pc = "call" /\ entry = "LeftJoinHash"
  /\ a' = Left /\ b' = Right /\ flip_results' = FALSE
  /\ pc' = "alloc_counter"
  /\ UNCHANGED <<fixed, error, d_joined_idx, hash_tbl, build, a_sample_size,
                 size_ratio, scanSize, d_common_probe, count_pending, tempOut,
                 probe, h_actual_found, joined_output, history>>

\* lines 249-258: build over the smaller column
InnerJoinHash ==
  /\ pc = "call" /\ entry = "InnerJoinHash"
  /\ a' = InnerArgs(Left, Right).a
  /\ b' = InnerArgs(Left, Right).b
  /\ flip_results' = InnerArgs(Left, Right).flip
  /\ pc' = "alloc_counter"
  /\ UNCHANGED <<fixed, error, d_joined_idx, hash_tbl, build, a_sample_size,
                 size_ratio, scanSize, d_common_probe, count_pending, tempOut,
                 probe, h_actual_found, joined_output, history>>

----------------------------------------------------------------------------
(* GenericJoinHash *)

\* lines 82-92: the match counter; CUDA_RT_CALL returns the failing status
AllocCounter ==
  /\ pc = "alloc_counter"
  /\ \E fault \in Faults :
       /\ faults' = faults - Cost(fault)
       /\ IF fault
          THEN /\ error' = cudaErrorMemoryAllocation
               /\ alloc_failed' = TRUE
               /\ live' = live
               /\ pc' = "done"
          ELSE /\ error' = cudaSuccess
               /\ alloc_failed' = alloc_failed
               /\ live' = [live EXCEPT !.d_joined_idx = 1]
               /\ pc' = "init_tbl"
  /\ d_joined_idx' = 0
  /\ UNCHANGED <<session, a, b, flip_results, hash_tbl, build, a_sample_size,
                 size_ratio, scanSize, d_common_probe, count_pending, tempOut,
                 probe, h_actual_found, joined_output, assigned, dev_error,
                 n_alloc, n_probe>>

\* lines 102-107: the table of b_count * 100 / occupancy slots
InitHashTbl ==
  /\ pc = "init_tbl"
  /\ \E fault \in Faults :
       /\ faults' = faults - Cost(fault)
       /\ IF fault
          THEN /\ error' = cudaErrorMemoryAllocation
               /\ hash_tbl' = hash_tbl
               /\ pc' = "done"
          ELSE IF HashTblSize(Count(b)) < 0
          THEN \* a table of a negative number of slots cannot be set up:
               \* the constructor fails, or the error is seen at line 105
               /\ error' = cudaErrorMemoryAllocation
               /\ hash_tbl' = hash_tbl
               /\ pc' \in {"done", "fault"}
          ELSE /\ error' = cudaSuccess
               /\ hash_tbl' = NewTable(HashTblSize(Count(b)))
               /\ pc' = "launch_build"
  /\ UNCHANGED <<session, a, b, flip_results, d_joined_idx, build,
                 a_sample_size, size_ratio, scanSize, d_common_probe,
                 count_pending, tempOut, probe, h_actual_found, joined_output,
                 history>>

\* lines 110-114: launch the build kernel, one worker per right row
LaunchBuild ==
  /\ pc = "launch_build"
  /\ \E fault \in Faults :
       /\ faults' = faults - Cost(fault)
       /\ IF LaunchOK(GridSize(Count(b)), fault)
          THEN /\ build' = [j \in RowIdx(b) |-> Hash(At(b, j)[1], Size(hash_tbl))]
               /\ error' = cudaSuccess
               /\ dev_error' = dev_error
               /\ pc' = "sample_init"
          ELSE /\ build' = build
               /\ error' = LaunchError(GridSize(Count(b)))
               /\ dev_error' = TRUE
               /\ pc' = "done"
  /\ UNCHANGED <<session, a, b, flip_results, d_joined_idx, hash_tbl,
                 a_sample_size, size_ratio, scanSize, d_common_probe,
                 count_pending, tempOut, probe, h_actual_found, joined_output,
                 assigned, alloc_failed, n_alloc, n_probe, live>>

\* the build kernel's worker for right row j: one compare-and-swap attempt
build_hash_tbl(j) ==
  /\ build[j] # Finished
  /\ LET r == InsertStep(hash_tbl, build[j], At(b, j)[1], j)
     IN /\ hash_tbl' = r[1]
        /\ build' = [build EXCEPT ![j] = r[2]]
  /\ UNCHANGED <<fixed, pc, a, b, flip_results, error, d_joined_idx,
                 a_sample_size, size_ratio, scanSize, d_common_probe,
                 count_pending, tempOut, probe, h_actual_found, joined_output,
                 history>>

\* lines 122-131: the first sample and its ratio
SampleInit ==
  /\ pc = "sample_init"
  /\ IF Oversized(Count(a), Count(b))
     THEN IF Count(b) = 0
          THEN \* a_count / b_count divides by zero
               /\ pc' = "fault"
               /\ UNCHANGED <<a_sample_size, size_ratio>>
          ELSE /\ a_sample_size' = Count(b)
               /\ size_ratio' = size_type(Quot(Count(a), Count(b)) + 1)
               /\ pc' = "count_launch"
     ELSE /\ a_sample_size' = Count(a)
          /\ size_ratio' = 1
          /\ pc' = "count_launch"
  /\ scanSize' = 0
  /\ UNCHANGED <<fixed, a, b, flip_results, error, d_joined_idx, hash_tbl,
                 build, d_common_probe, count_pending, tempOut, probe,
                 h_actual_found, joined_output, history>>

\* lines 133-144: clamp the sample, allocate and clear the sample counter
\* (status ignored), launch the counting probe; the check that follows the
\* launch reads `error`, which the launch did not set
CountLaunch ==
  /\ pc = "count_launch"
  /\ \E mem_fault \in Faults, fault \in Faults :
       /\ Cost(mem_fault) + Cost(fault) <= faults
       /\ faults' = faults - Cost(mem_fault) - Cost(fault)
       /\ d_common_probe' = [valid |-> ~mem_fault, val |-> 0]
       /\ alloc_failed' = (alloc_failed \/ mem_fault)
       /\ live' = (IF mem_fault THEN live
                   ELSE [live EXCEPT !.d_common_probe = @ + 1])
       /\ count_pending' = LaunchOK(GridSize(Count(a)), fault)
       /\ dev_error' = (dev_error \/ ~LaunchOK(GridSize(Count(a)), fault))
  /\ a_sample_size' =
       (IF a_sample_size > Count(a) THEN Count(a) ELSE a_sample_size)
  /\ pc' = (IF error # cudaSuccess THEN "done" ELSE "count_read")
  /\ UNCHANGED <<session, a, b, flip_results, error, d_joined_idx, hash_tbl,
                 build, size_ratio, scanSize, tempOut, probe, h_actual_found,
                 joined_output, assigned, n_alloc, n_probe>>

\* the counting kernel over the sample; it runs after the build kernel
\* (same stream) and adds every match to the sample counter
probe_hash_tbl_count_common ==
  /\ count_pending /\ BuildDone
  /\ count_pending' = FALSE
  /\ d_common_probe' =
       [d_common_probe EXCEPT
          !.val = size_type(@ + CountCommon(hash_tbl, a, a_sample_size, b))]
  /\ UNCHANGED <<fixed, pc, a, b, flip_results, error, d_joined_idx,
                 hash_tbl, build, a_sample_size, size_ratio, scanSize, tempOut,
                 probe, h_actual_found, joined_output, history>>

\* what cudaMemcpy and cudaFree of the sample counter yield: its value, or,
\* through a pointer that was never set, a failure or an indeterminate value
CounterReads ==
  IF d_common_probe.valid
  THEN {[status |-> cudaSuccess, val |-> d_common_probe.val]}
  ELSE {[status |-> cudaErrorInvalidValue, val |-> 0]}
       \cup {[status |-> cudaSuccess, val |-> v] : v \in Indeterminate}

\* lines 146-157: read the counter back, extrapolate, leave the loop or
\* double the sample
CountReadback ==
  /\ pc = "count_read" /\ ~count_pending /\ BuildDone
  /\ \E r \in CounterReads :
       IF r.status # cudaSuccess
       THEN /\ error' = r.status
            /\ pc' = "done"
            /\ UNCHANGED <<scanSize, a_sample_size, size_ratio, live>>
       ELSE /\ error' = error
            /\ live' = (IF d_common_probe.valid
                        THEN [live EXCEPT !.d_common_probe = @ - 1]
                        ELSE live)
            /\ scanSize' = size_type(r.val * size_ratio)
            /\ IF EstimateDone(scanSize', a_sample_size, Count(a))
               THEN /\ pc' = "empty_check"
                    /\ UNCHANGED <<a_sample_size, size_ratio>>
               ELSE /\ pc' = "count_launch"
                    /\ IF scanSize' = 0
                       THEN /\ a_sample_size' = size_type(a_sample_size * 2)
                            /\ size_ratio' = HalfRatio(size_ratio)
                       ELSE UNCHANGED <<a_sample_size, size_ratio>>
  /\ UNCHANGED <<fixed, a, b, flip_results, d_joined_idx, hash_tbl, build,
                 d_common_probe, count_pending, tempOut, probe, h_actual_found,
                 joined_output, assigned, dev_error, alloc_failed, n_alloc,
                 n_probe>>

\* lines 160-163: nothing in common, nothing to scan
EmptyCheck ==
  /\ pc = "empty_check"
  /\ pc' = (IF scanSize = 0 THEN "done" ELSE "probe_alloc")
  /\ UNCHANGED <<fixed, a, b, flip_results, error, d_joined_idx, hash_tbl,
                 build, a_sample_size, size_ratio, scanSize, d_common_probe,
                 count_pending, tempOut, probe, h_actual_found, joined_output,
                 history>>

\* a retry loop that leaves the match counter as the last probe left it
ProbeAllocNoReset ==
  /\ pc = "probe_alloc"
  /\ \E fault \in Faults :
       /\ faults' = faults - Cost(fault)
       /\ IF fault \/ scanSize <= 0
          THEN /\ tempOut' = NullBuffer
               /\ error' = cudaErrorMemoryAllocation
               /\ alloc_failed' = TRUE
               /\ UNCHANGED <<d_joined_idx, n_alloc, live>>
               /\ pc' = "done"
          ELSE /\ tempOut' = [st |-> "live", cap |-> scanSize,
                           data |-> [s \in 0 .. (scanSize - 1) |-> NoPair]]
            /\ error' = error
            /\ alloc_failed' = alloc_failed
            /\ d_joined_idx' = d_joined_idx
            /\ n_alloc' = n_alloc + 1
            /\ live' = [live EXCEPT !.tempOut = @ + 1]
            /\ pc' = "probe_launch"
  /\ UNCHANGED <<session, a, b, flip_results, hash_tbl, build, a_sample_size,
                 size_ratio, scanSize, d_common_probe, count_pending, probe,
                 h_actual_found, joined_output, assigned, dev_error, n_probe>>

\* lines 173-183: a new pair buffer of scanSize pairs, the match counter
\* reset; a buffer of no or of a negative number of pairs (a huge size_t) is
\* refused
ProbeAlloc ==
  /\ pc = "probe_alloc"
  /\ \E fault \in Faults :
       /\ faults' = faults - Cost(fault)
       /\ IF fault \/ scanSize <= 0
          THEN /\ tempOut' = NullBuffer
               /\ error' = cudaErrorMemoryAllocation
               /\ alloc_failed' = TRUE
               /\ UNCHANGED <<d_joined_idx, n_alloc, live>>
               /\ pc' = "done"
          ELSE /\ tempOut' = [st |-> "live", cap |-> scanSize,
                           data |-> [s \in 0 .. (scanSize - 1) |-> NoPair]]
            /\ error' = error
            /\ alloc_failed' = alloc_failed
            /\ d_joined_idx' = 0
            /\ n_alloc' = n_alloc + 1
            /\ live' = [live EXCEPT !.tempOut = @ + 1]
            /\ pc' = "probe_launch"
  /\ UNCHANGED <<session, a, b, flip_results, hash_tbl, build, a_sample_size,
                 size_ratio, scanSize, d_common_probe, count_pending, probe,
                 h_actual_found, joined_output, assigned, dev_error, n_probe>>

\* lines 185-188: launch the materialising probe, one worker per left row;
\* the launch is not checked
ProbeLaunch ==
  /\ pc = "probe_launch"
  /\ \E fault \in Faults :
       /\ faults' = faults - Cost(fault)
       /\ IF LaunchOK(GridSize(Count(a)), fault)
          THEN /\ probe' = [i \in RowIdx(a) |-> RowMatches(hash_tbl, a, i, b)]
               /\ dev_error' = dev_error
          ELSE /\ probe' = <<>>
               /\ dev_error' = TRUE
  /\ n_probe' = n_probe + 1
  /\ pc' = "sync"
  /\ UNCHANGED <<session, a, b, flip_results, error, d_joined_idx, hash_tbl,
                 build, a_sample_size, size_ratio, scanSize, d_common_probe,
                 count_pending, tempOut, h_actual_found, joined_output,
                 assigned, alloc_failed, n_alloc, live>>

\* a worker that takes the slot from a stale read of the counter
probe_hash_tbl_stale(i) ==
  /\ pc = "sync"
  /\ probe[i] # <<>>
  /\ LET j == Head(probe[i])
         slot == IF d_joined_idx > 0 THEN d_joined_idx - 1 ELSE 0
     IN /\ d_joined_idx' = size_type(d_joined_idx + 1)
        /\ tempOut' =
             IF slot < scanSize
             THEN [tempOut EXCEPT !.data[slot] = <<i, j>>]
             ELSE tempOut
  /\ probe' = [probe EXCEPT ![i] = Tail(@)]
  /\ UNCHANGED <<fixed, pc, a, b, flip_results, error, hash_tbl, build,
                 a_sample_size, size_ratio, scanSize, d_common_probe,
                 count_pending, h_actual_found, joined_output, history>>

\* the materialising kernel's worker for left row i emits its next match: it
\* reserves a slot with an atomic increment of the counter and writes the pair
\* there when the slot lies inside the buffer
probe_hash_tbl(i) ==
  /\ pc = "sync"
  /\ probe[i] # <<>>
  /\ LET j == Head(probe[i])
         slot == d_joined_idx
     IN /\ d_joined_idx' = size_type(d_joined_idx + 1)
        /\ tempOut' =
             IF slot < scanSize
             THEN [tempOut EXCEPT !.data[slot] = <<i, j>>]
             ELSE tempOut
  /\ probe' = [probe EXCEPT ![i] = Tail(@)]
  /\ UNCHANGED <<fixed, pc, a, b, flip_results, error, hash_tbl, build,
                 a_sample_size, size_ratio, scanSize, d_common_probe,
                 count_pending, h_actual_found, joined_output, history>>

\* line 189: wait for the kernel; the status is stored and not looked at
ProbeSync ==
  /\ pc = "sync" /\ ProbeDone
  /\ \E fault \in Faults :
       /\ faults' = faults - Cost(fault)
       /\ error' = (IF fault THEN cudaErrorLaunchFailure ELSE cudaSuccess)
       /\ dev_error' = (dev_error \/ fault)
  /\ probe' = <<>>
  /\ pc' = "readback"
  /\ UNCHANGED <<session, a, b, flip_results, d_joined_idx, hash_tbl, build,
                 a_sample_size, size_ratio, scanSize, d_common_probe,
                 count_pending, tempOut, h_actual_found, joined_output,
                 assigned, alloc_failed, n_alloc, n_probe, live>>

\* lines 191-199: read the counter back; when the buffer was too small, free
\* it, double scanSize and go round again
ReadBack ==
  /\ pc = "readback"
  /\ h_actual_found' = d_joined_idx
  /\ IF Undersized(scanSize, h_actual_found')
     THEN /\ scanSize' = size_type(scanSize * 2)
          /\ tempOut' = [tempOut EXCEPT !.st = "freed"]
          /\ live' = [live EXCEPT !.tempOut = @ - 1]
          /\ pc' = "probe_alloc"
     ELSE /\ UNCHANGED <<scanSize, tempOut, live>>
          /\ pc' = "transpose"
  /\ UNCHANGED <<fixed, a, b, flip_results, error, d_joined_idx, hash_tbl,
                 build, a_sample_size, size_ratio, d_common_probe,
                 count_pending, probe, joined_output, assigned, dev_error,
                 alloc_failed, n_alloc, n_probe>>

\* lines 202-208: the output of 2 * h_actual_found indices; free the counter
\* and return the status; the statement after the return, which frees the
\* pair buffer, is never reached.  An output of a negative number of indices cannot
\* be allocated: the exception of the allocator leaves the call.
Transpose ==
  /\ pc = "transpose"
  /\ IF size_type(2 * h_actual_found) < 0
     THEN /\ pc' = "fault"
          /\ UNCHANGED <<joined_output, assigned, live>>
     ELSE /\ joined_output' =
               pairs_to_decoupled(h_actual_found, tempOut.data, flip_results)
          /\ assigned' = TRUE
          /\ live' = [live EXCEPT !.d_joined_idx = 0]
          /\ pc' = "done"
  /\ UNCHANGED <<fixed, a, b, flip_results, error, d_joined_idx, hash_tbl,
                 build, a_sample_size, size_ratio, scanSize, d_common_probe,
                 count_pending, tempOut, probe, h_actual_found, dev_error,
                 alloc_failed, n_alloc, n_probe>>

----------------------------------------------------------------------------
(* The session: the caller runs the join a second time on the same columns, *)
(* in the same argument order or, for the inner join, with the arguments   *)
(* exchanged                                                               *)

Returned == pc = "done"

Result ==
  [status |-> error, pairs |-> Pairs(joined_output),
   found |-> Size(joined_output) \div 2]

SecondCall ==
  /\ Returned /\ call = 1
  /\ call' = 2
  /\ first' = Result
  /\ order' \in (IF entry = "InnerJoinHash" THEN {"AB", "BA"} ELSE {"AB"})
  /\ pc' = "call"
  /\ a' = <<>> /\ b' = <<>> /\ flip_results' = FALSE
  /\ error' = cudaSuccess
  /\ d_joined_idx' = 0
  /\ hash_tbl' = <<>> /\ build' = <<>>
  /\ a_sample_size' = 0 /\ size_ratio' = 1 /\ scanSize' = 0
  /\ d_common_probe' = [valid |-> FALSE, val |-> 0]
  /\ count_pending' = FALSE
  /\ tempOut' = NullBuffer
  /\ probe' = <<>>
  /\ h_actual_found' = 0
  /\ joined_output' = EmptyOutput
  /\ assigned' = FALSE /\ dev_error' = FALSE /\ alloc_failed' = FALSE
  /\ n_alloc' = 0 /\ n_probe' = 0
  /\ live' = NoBuffers
  /\ UNCHANGED <<entry, A, B, faults>>

----------------------------------------------------------------------------

\* the steps of the host thread in one call
Host ==
  \/ LeftJoinHash
  \/ InnerJoinHash
  \/ AllocCounter
  \/ InitHashTbl
  \/ LaunchBuild
  \/ SampleInit
  \/ CountLaunch
  \/ CountReadback
  \/ EmptyCheck
  \/ ProbeAlloc
  \/ ProbeLaunch
  \/ ProbeSync
  \/ ReadBack
  \/ Transpose

\* the steps of one call: the host and the workers of the kernels, in any
\* order
Call ==
  \/ Host
  \/ \E j \in DOMAIN build : build_hash_tbl(j)
  \/ probe_hash_tbl_count_common
  \/ \E i \in DOMAIN probe : probe_hash_tbl(i)

\* the workers of a kernel one after the other, in the order of their rows
SerialBuild ==
  \E j \in DOMAIN build :
    /\ \A k \in 0 .. (j - 1) : build[k] = Finished
    /\ build_hash_tbl(j)

SerialProbe ==
  \E i \in DOMAIN probe :
    /\ \A k \in 0 .. (i - 1) : probe[k] = <<>>
    /\ probe_hash_tbl(i)

CallSize ==
  \/ Host
  \/ SerialBuild
  \/ probe_hash_tbl_count_common
  \/ SerialProbe

Next == Call \/ SecondCall

\* two calls on a device that reports no fault it is not forced to
Spec == Init /\ [][Next]_vars

\* one call on a device that may fail an allocation, a launch or a
\* synchronisation, MaxFaults times
SpecFault == InitFault /\ [][Call]_vars

\* one call on columns of up to SizeMax rows, the workers of each kernel in
\* row order; the host thread and the device keep running
SpecSize == InitSize /\ [][CallSize]_vars /\ WF_vars(CallSize)


----------------------------------------------------------------------------
(* Properties *)

Succeeded == Returned /\ error = cudaSuccess

\* GenericJoinHash was given the caller's columns exchanged
Swapped == Count(Right) > Count(Left) /\ a = Right /\ b = Left

\* the caller's (left row, right row) of a pair (probe row, build row)
Oriented(p) == IF Swapped THEN <<p[2], p[1]>> ELSE p

\* C1: every pair a successful call returns is a pair (i, j) of a row i of the
\* caller's left column and a row j of its right column, 0 <= i < |A| and
\* 0 <= j < |B|, whose key components are all equal
C1_ReturnedPairsMatch ==
  Succeeded =>
    \A p \in Pairs(joined_output) :
      /\ p[1] \in RowIdx(Left)
      /\ p[2] \in RowIdx(Right)
      /\ KeysEqual(Left, p[1], Right, p[2])

\* a successful call with swapped sides returned pairs, and some rows of the
\* two columns agree in the first key component only
C1_Witness ==
  /\ Succeeded /\ flip_results
  /\ Pairs(joined_output) # {}
  /\ \E i \in RowIdx(Left), j \in RowIdx(Right) :
       At(Left, i)[1] = At(Right, j)[1] /\ ~KeysEqual(Left, i, Right, j)

\* C2: the pairs a successful inner join returns are exactly the
\* cross-matching set of the caller's columns, each pair once, whichever side
\* the table was built over and however often the buffer had to grow
C2_Complete ==
  (Succeeded /\ entry = "InnerJoinHash") =>
    /\ Pairs(joined_output) = MatchSet(Left, Right)
    /\ Size(joined_output) = 2 * Cardinality(MatchSet(Left, Right))

\* a successful inner join with swapped sides whose buffer grew twice
C2_Witness ==
  /\ Succeeded /\ entry = "InnerJoinHash" /\ flip_results
  /\ n_alloc >= 3
  /\ Pairs(joined_output) # {}

\* C3: InnerJoinHash(B, A) returns the pairs of InnerJoinHash(A, B) with the
\* two indices of every pair exchanged
C3_Symmetric ==
  (Returned /\ entry = "InnerJoinHash" /\ call = 2 /\ order = "BA") =>
    Pairs(joined_output) = {<<p[2], p[1]>> : p \in first.pairs}

\* both calls returned pairs, the columns have the same number of rows (no
\* swap in either call) and the pair set is not its own mirror image
C3_Witness ==
  /\ Returned /\ entry = "InnerJoinHash" /\ call = 2 /\ order = "BA"
  /\ Count(A) = Count(B) /\ ~flip_results
  /\ first.status = cudaSuccess /\ error = cudaSuccess
  /\ \E p \in first.pairs : <<p[2], p[1]>> \notin first.pairs

\* C5: the transposition is entered only with the live buffer of the last
\* probe and a final counter value within its capacity, and a probe that ends
\* with the counter above scanSize has its buffer freed, scanSize doubled and
\* is redone
C5_NoOverflowTrusted ==
  /\ [](pc = "transpose" =>
          /\ h_actual_found = d_joined_idx
          /\ h_actual_found <= scanSize
          /\ tempOut.st = "live" /\ tempOut.cap = scanSize)
  /\ [][(pc = "readback" /\ d_joined_idx > scanSize) =>
          /\ pc' = "probe_alloc"
          /\ scanSize' = 2 * scanSize
          /\ tempOut'.st = "freed"]_vars
  /\ [][pc = "probe_alloc" =>
          (pc' = "probe_launch" /\ tempOut'.st = "live"
           /\ tempOut'.cap = scanSize /\ d_joined_idx' = 0)]_vars

\* the transposition is entered after a probe overflowed and was redone
C5_Witness == pc = "transpose" /\ n_probe >= 2 /\ h_actual_found = scanSize

\* C7: the output of a successful join that found n pairs has 2 * n entries,
\* and entry k and entry k + n are the left and the right row, in the caller's
\* order, of the k-th pair of the buffer
C7_OutputLayout ==
  (Succeeded /\ assigned) =>
    /\ Size(joined_output) = 2 * h_actual_found
    /\ \A k \in 0 .. (h_actual_found - 1) :
         /\ joined_output[k] \in RowIdx(Left)
         /\ joined_output[k + h_actual_found] \in RowIdx(Right)
         /\ <<joined_output[k], joined_output[k + h_actual_found]>>
              = Oriented(tempOut.data[k])

\* a successful join with swapped sides whose pairs are not symmetric
C7_Witness ==
  /\ Succeeded /\ assigned /\ Swapped /\ flip_results
  /\ h_actual_found >= 2
  /\ \E k \in 0 .. (h_actual_found - 1) :
       tempOut.data[k][1] # tempOut.data[k][2]

\* C8: the second run of the same join on the same columns returns the same
\* status, the same set of pairs and the same number of pairs as the first
C8_Idempotent ==
  (Returned /\ call = 2 /\ order = "AB") =>
    /\ error = first.status
    /\ Pairs(joined_output) = first.pairs
    /\ Size(joined_output) \div 2 = first.found

\* the second run returned, after a growth retry, several pairs in an order
\* other than the order of the left rows
C8_Witness ==
  /\ Returned /\ call = 2 /\ order = "AB"
  /\ error = cudaSuccess /\ first.found >= 2 /\ n_alloc >= 2
  /\ \E k \in 1 .. (h_actual_found - 1) :
       joined_output[k] < joined_output[k - 1]

\* C4: a call on columns without a match returns success and an empty
\* result from the estimate, with no pair buffer allocated and no
\* materialising probe launched
C4_ZeroMatchEmpty ==
  (Returned /\ MatchSet(Left, Right) = {}) =>
    /\ error = cudaSuccess
    /\ scanSize = 0
    /\ ~assigned /\ joined_output = EmptyOutput
    /\ n_alloc = 0 /\ n_probe = 0

\* C6: a call with an empty column returns success and no pair, and does not
\* divide by zero
C6_EmptyColumn ==
  (Count(Left) = 0 \/ Count(Right) = 0) =>
    /\ pc # "fault"
    /\ Returned => (error = cudaSuccess /\ Pairs(joined_output) = {})

\* C9: once a launch or the synchronisation has reported an error the call
\* has returned it, and no later stage has run
C9_ShortCircuit == dev_error => (Returned /\ error # cudaSuccess)

\* C10: a call in which an allocation failed returns a status other than
\* success, and a call that returns such a status has not assigned
\* joined_output
C10_AllocationFatal ==
  Returned =>
    /\ alloc_failed => error # cudaSuccess
    /\ error # cudaSuccess => ~assigned

\* C11: InnerJoinHash builds the table over the column with fewer rows: the
\* build side b has min(|A|, |B|) rows, the sides are exchanged exactly when the
\* caller's right column has more rows than its left one, flip_results is set
\* exactly then, and the build kernel inserts rows of b only
C11_BuildOverSmaller ==
  (entry = "InnerJoinHash" /\ pc # "call") =>
    /\ Count(b) = (IF Count(Left) < Count(Right) THEN Count(Left)
                                                  ELSE Count(Right))
    /\ Count(b) <= Count(a)
    /\ flip_results <=> (Count(Right) > Count(Left))
    /\ IF Count(Right) > Count(Left)
       THEN a = Right /\ b = Left
       ELSE a = Left /\ b = Right
    /\ build # <<>> => DOMAIN build = RowIdx(b)
    /\ \A s \in DOMAIN hash_tbl :
         hash_tbl[s] # UnusedSlot =>
           /\ hash_tbl[s].val \in RowIdx(b)
           /\ hash_tbl[s].key = At(b, hash_tbl[s].val)[1]

\* the build over the caller's left column, which has fewer rows, is complete
C11_Witness ==
  /\ entry = "InnerJoinHash" /\ flip_results
  /\ Count(Left) < Count(Right) /\ Count(Left) >= 2
  /\ build # <<>> /\ BuildDone
  /\ b = Left /\ a # b

\* the estimate loop has just been left
LoopExit == pc = "empty_check"

\* a round of the estimate loop reads its counter and goes on
RoundRead == pc = "count_read" /\ pc' \in {"empty_check", "count_launch"}

\* C12: when the estimate loop is left with an estimate of 0, the last
\* counting probe covered the whole left column and counted nothing, so the
\* join has no pair; and no round turns a counter other than 0 into an
\* estimate of 0
C12_EmptyIsExact ==
  /\ []((LoopExit /\ scanSize = 0) =>
          /\ a_sample_size = Count(a)
          /\ d_common_probe.val = 0
          /\ MatchSet(a, b) = {})
  /\ [][(RoundRead /\ scanSize' = 0) => d_common_probe.val = 0]_vars

\* C13: every round of the estimate loop is followed by the end of the loop
\* (or of the call), and a round ends the loop exactly when its estimate is
\* above 0 or its sample is the whole left column
C13_EstimateTerminates ==
  /\ (pc = "count_launch") ~> (pc \in {"empty_check", "done", "fault"})
  /\ [][RoundRead =>
          ((pc' = "empty_check") <=>
             (scanSize' > 0 \/ a_sample_size = Count(a)))]_vars

\* C14: a call that enters the retry loop reaches the transposition and then
\* returns, and every retry enlarges scanSize
C14_GrowTerminates ==
  /\ (pc = "probe_alloc") ~> (pc = "transpose")
  /\ (pc = "transpose") ~> Returned
  /\ [][(pc = "readback" /\ pc' = "probe_alloc") => scanSize' > scanSize]_vars

\* C15: the first round samples |B| rows with ratio |A| / |B| + 1 when
\* |A| > 5 * |B| and all of A with ratio 1 otherwise; the estimate of a round
\* is the number of matches of its sample times its ratio; a retry samples
\* min(2 * sample, |A|) rows with ratio max(ratio / 2, 1); every counting probe
\* has sample <= |A| and ratio >= 1
C15_SamplingSchedule ==
  /\ [][(pc = "sample_init" /\ pc' = "count_launch") =>
          IF Count(a) > 5 * Count(b)
          THEN /\ a_sample_size' = Count(b)
               /\ size_ratio' = (Count(a) \div Count(b)) + 1
          ELSE /\ a_sample_size' = Count(a)
               /\ size_ratio' = 1]_vars
  /\ [][RoundRead =>
          scanSize' = CountCommon(hash_tbl, a, a_sample_size, b) * size_ratio]_vars
  /\ [][(pc = "count_read" /\ pc' = "count_launch") =>
          /\ scanSize' = 0
          /\ a_sample_size' = 2 * a_sample_size
          /\ size_ratio' = (IF size_ratio \div 2 > 1 THEN size_ratio \div 2
                                                      ELSE 1)]_vars
  /\ [][(pc = "count_launch" /\ pc' = "count_read") =>
          /\ a_sample_size' = (IF a_sample_size < Count(a) THEN a_sample_size
                                                           ELSE Count(a))
          /\ a_sample_size' >= 0
          /\ size_ratio' >= 1]_vars

\* C19: the table has 2 * b_count slots for every b_count, so the build never
\* finds the table full and fills at most half of it
C19_Capacity ==
  /\ pc # "call" => HashTblSize(Count(b)) = 2 * Count(b)
  /\ pc \notin {"call", "alloc_counter", "init_tbl"} =>
       \/ Size(hash_tbl) = 2 * Count(b)
       \/ (Returned /\ error # cudaSuccess /\ faults < MaxFaults)
  /\ build # <<>> =>
       /\ 2 * Cardinality({s \in DOMAIN hash_tbl : hash_tbl[s] # UnusedSlot})
            <= Size(hash_tbl)
       /\ BuildDone =>
            Cardinality({s \in DOMAIN hash_tbl : hash_tbl[s] # UnusedSlot})
              = Count(b)

\* the slots of the table that hold an entry
Used == {s \in DOMAIN hash_tbl : hash_tbl[s] # UnusedSlot}

\* C16: the counter is read when every worker of the materialising probe has
\* finished: the value read is the number of matches the probe found, it is
\* the value the retry decision and the transposition use, and from the read
\* to the next probe (or the return) neither the counter nor the buffer's
\* pairs change
C16_ReadAfterProbe ==
  /\ [](pc \in {"readback", "transpose"} => ProbeDone)
  /\ [](pc = "transpose" =>
          /\ h_actual_found = d_joined_idx
          /\ h_actual_found = Cardinality(MatchSet(a, b)))
  /\ [][pc = "readback" =>
          /\ h_actual_found' = d_joined_idx
          /\ h_actual_found' = Cardinality(MatchSet(a, b))
          /\ (pc' = "probe_alloc") <=> (scanSize < d_joined_idx)]_vars
  /\ [][(pc = "readback" \/ pc = "transpose") =>
          /\ d_joined_idx' = d_joined_idx
          /\ tempOut'.data = tempOut.data]_vars

\* the counter is read after the second probe of a call, which had several
\* workers with a match
C16_Witness ==
  /\ pc = "transpose" /\ n_probe >= 2
  /\ h_actual_found >= 3
  /\ Cardinality({p[1] : p \in MatchSet(a, b)}) >= 2

\* C17: a slot of the table, once claimed, keeps its entry; when the build
\* kernel has finished the table holds the entry (b[i], i) of every right row
\* i and nothing else, rows with equal keys included; the counting probe and
\* the materialising probe run on the finished table only
C17_BuildComplete ==
  /\ [][\A s \in Used :
          s \in DOMAIN hash_tbl' => hash_tbl'[s] = hash_tbl[s]]_vars
  /\ []((build # <<>> /\ BuildDone) =>
          /\ {<<hash_tbl[s].key, hash_tbl[s].val>> : s \in Used}
               = {<<At(b, i)[1], i>> : i \in RowIdx(b)}
          /\ Cardinality(Used) = Count(b))
  /\ [][(count_pending /\ ~count_pending') =>
          Cardinality(Used) = Count(b)]_vars
  /\ []((probe # <<>>) => Cardinality(Used) = Count(b))

\* the build of two rows with the same key, which met in one slot, is
\* finished
C17_Witness ==
  /\ build # <<>> /\ BuildDone /\ Count(b) >= 2
  /\ At(b, 0)[1] = At(b, 1)[1]
  /\ hash_tbl[Hash(At(b, 0)[1], Size(hash_tbl))].val = 1

\* C18: every match of a materialising probe takes the slot the counter
\* names and moves the counter on by one, so no slot inside the buffer is
\* taken twice; after a probe that did not overflow the counter is the number
\* of matches and the slots below it hold the matching pairs, each once, and
\* no slot is left out
C18_DistinctSlots ==
  /\ [][(pc = "sync" /\ d_joined_idx' # d_joined_idx) =>
          /\ d_joined_idx' = d_joined_idx + 1
          /\ d_joined_idx < scanSize =>
               /\ tempOut.data[d_joined_idx] = NoPair
               /\ tempOut'.data[d_joined_idx] \in MatchSet(a, b)
               /\ \A k \in DOMAIN tempOut.data :
                    k # d_joined_idx => tempOut'.data[k] = tempOut.data[k]]_vars
  /\ [](pc = "transpose" =>
          /\ h_actual_found = Cardinality(MatchSet(a, b))
          /\ {tempOut.data[k] : k \in 0 .. (h_actual_found - 1)}
               = MatchSet(a, b)
          /\ \A k \in DOMAIN tempOut.data :
               k >= h_actual_found => tempOut.data[k] = NoPair)

\* a probe of several workers filled a buffer larger than the number of
\* matches, in an order other than the order of the rows
C18_Witness ==
  /\ pc = "transpose" /\ h_actual_found >= 3
  /\ scanSize > h_actual_found
  /\ \E k \in 1 .. (h_actual_found - 1) :
       tempOut.data[k][1] < tempOut.data[k - 1][1]

\* C20: when the call returns, whether with a result, with an empty result
\* or with an error, it has freed the match counter, every sample counter and
\* every pair buffer it allocated
C20_AllReleased == Returned => live = NoBuffers

\* C21: every materialising probe, the first one and every retry, starts
\* with the match counter at 0, also when the probe before left another value
\* in it; the value read after a probe is the number of matches of that probe
\* alone, which is the number of pairs of the join in every round of the
\* retry loop
C21_CounterReset ==
  /\ [](pc = "probe_launch" => d_joined_idx = 0)
  /\ [][(pc = "probe_alloc" /\ pc' = "probe_launch") => d_joined_idx' = 0]_vars
  /\ [][pc = "readback" =>
          /\ h_actual_found' = Cardinality(MatchSet(a, b))
          /\ (n_probe >= 2 => h_actual_found' = h_actual_found)]_vars

\* the third probe of a call has been read; the two probes before it had
\* left the counter above 0
C21_Witness ==
  /\ pc = "transpose" /\ n_probe >= 3
  /\ h_actual_found >= 2 /\ h_actual_found = d_joined_idx

====
